---- MODULE Spec2Model ----
(***************************************************************************)
(* Model of the MM-GBSA trajectory viewer (src/mmgbsa_ui_v2.py).           *)
(*                                                                         *)
(* The Streamlit script is re-executed top to bottom on every user         *)
(* interaction.  The model has one action per kind of interaction; each    *)
(* action is one complete execution of the script: ingestion of the        *)
(* uploads (lines 213-257), the sidebar writing the widget values into the *)
(* session settings (lines 259-399), the per-ligand settings (lines        *)
(* 406-440), the per-file loop (lines 442-519) and the display and export  *)
(* tail (lines 520-621).                                                   *)
(*                                                                         *)
(* Numbers.  A float is a pair <<n, d>>: the rational n/d in lowest terms  *)
(* with d > 0, or NaN, written <<0, 0>>.  Arithmetic is exact; rounding of *)
(* IEEE doubles is not modelled.  A non-negative quantity that the code    *)
(* obtains through a square root (a standard deviation, a standard error,  *)
(* the half width of a t interval) is held as its square.                  *)
(***************************************************************************)
EXTENDS Integers, Sequences, FiniteSets, TLC

----------------------------------------------------------------------------
(* Bounds of the model *)

MaxLen == 3

MaxSample == 2

MaxFiles == 3

MaxDuration == 2

----------------------------------------------------------------------------
(* Floats as exact rationals *)

NaN == <<0, 0>>

IsNaN(x) == x[2] = 0

Abs(n) == IF n < 0 THEN -n ELSE n

RECURSIVE GCD(_, _)
GCD(a, b) == IF b = 0 THEN a ELSE GCD(b, a % b)

Rat(n, d) ==
    IF d = 0 THEN NaN
    ELSE LET g == GCD(Abs(n), Abs(d))
             s == IF d < 0 THEN -1 ELSE 1
         IN  <<(s * n) \div g, (s * d) \div g>>

Num(k) == <<k, 1>>

Zero == Num(0)

RAdd(a, b) == IF IsNaN(a) \/ IsNaN(b) THEN NaN
              ELSE Rat(a[1] * b[2] + b[1] * a[2], a[2] * b[2])

RSub(a, b) == IF IsNaN(a) \/ IsNaN(b) THEN NaN
              ELSE Rat(a[1] * b[2] - b[1] * a[2], a[2] * b[2])

RMul(a, b) == IF IsNaN(a) \/ IsNaN(b) THEN NaN
              ELSE Rat(a[1] * b[1], a[2] * b[2])

\* a / b; a division by zero gives NaN (0/0) or an infinity, never a finite value
RDiv(a, b) == IF IsNaN(a) \/ IsNaN(b) THEN NaN
              ELSE Rat(a[1] * b[2], a[2] * b[1])

\* IEEE comparisons: every comparison with NaN is false
Le(a, b) == ~IsNaN(a) /\ ~IsNaN(b) /\ a[1] * b[2] <= b[1] * a[2]

Lt(a, b) == ~IsNaN(a) /\ ~IsNaN(b) /\ a[1] * b[2] < b[1] * a[2]

\* c + sign * sqrt(h2): the form of the bounds of a t interval (h2 >= 0,
\* sign is -1 or 1); an exact value x is <<x, 1, Zero>>
Surd(c, sign, h2) ==
    IF IsNaN(c) \/ IsNaN(h2) THEN <<NaN, 1, NaN>>
    ELSE IF h2 = Zero THEN <<c, 1, Zero>> ELSE <<c, sign, h2>>

Exact(x) == Surd(x, 1, Zero)

SurdIsNaN(s) == IsNaN(s[1])

\* s >= 0
SurdNonNeg(s) ==
    /\ ~SurdIsNaN(s)
    /\ IF s[2] = 1 THEN Le(Zero, s[1]) \/ Le(RMul(s[1], s[1]), s[3])
       ELSE Le(Zero, s[1]) /\ Le(s[3], RMul(s[1], s[1]))

SurdIsZero(s) ==
    /\ ~SurdIsNaN(s)
    /\ RMul(s[1], s[1]) = s[3]
    /\ (s[3] = Zero \/ (s[2] = 1 /\ Lt(s[1], Zero)) \/ (s[2] = -1 /\ Lt(Zero, s[1])))

SurdNeg(s) == Surd(RSub(Zero, s[1]), -s[2], s[3])

\* x - s and s - x for an exact x
SurdRSub(x, s) == Surd(RSub(x, s[1]), -s[2], s[3])

SurdSubR(s, x) == Surd(RSub(s[1], x), s[2], s[3])

\* np.abs
SurdAbs(s) == IF SurdIsNaN(s) \/ SurdNonNeg(s) THEN s ELSE SurdNeg(s)

\* s <= x and x <= s for an exact x
SurdLeR(s, x) == ~IsNaN(x) /\ SurdNonNeg(SurdRSub(x, s))

RLeSurd(x, s) == ~IsNaN(x) /\ SurdNonNeg(SurdSubR(s, x))

----------------------------------------------------------------------------
(* Series: position k of a sequence is index k-1 of the pandas Series *)

Max(a, b) == IF a > b THEN a ELSE b

\* the valid (non-missing) samples of positions lo..hi
RECURSIVE Count(_, _, _)
Count(x, lo, hi) ==
    IF hi < lo THEN 0
    ELSE Count(x, lo, hi - 1) + (IF IsNaN(x[hi]) THEN 0 ELSE 1)

RECURSIVE SumValid(_, _, _)
SumValid(x, lo, hi) ==
    IF hi < lo THEN Zero
    ELSE IF IsNaN(x[hi]) THEN SumValid(x, lo, hi - 1)
    ELSE RAdd(SumValid(x, lo, hi - 1), x[hi])

\* pandas Series.mean / np.nanmean: the mean of the valid samples
MeanValid(x, lo, hi) == RDiv(SumValid(x, lo, hi), Num(Count(x, lo, hi)))

\* the sum of squared deviations of the valid samples from their mean
RECURSIVE SumSqDev(_, _, _, _)
SumSqDev(x, lo, hi, m) ==
    IF hi < lo THEN Zero
    ELSE IF IsNaN(x[hi]) THEN SumSqDev(x, lo, hi - 1, m)
    ELSE RAdd(SumSqDev(x, lo, hi - 1, m), RMul(RSub(x[hi], m), RSub(x[hi], m)))

\* pandas Series.std, squared: ddof = 1, NaN with fewer than 2 valid samples
VarValid(x, lo, hi) ==
    IF Count(x, lo, hi) < 2 THEN NaN
    ELSE RDiv(SumSqDev(x, lo, hi, MeanValid(x, lo, hi)), Num(Count(x, lo, hi) - 1))

\* the smaller / larger of r and v, a missing value never winning
NanMin(r, v) == IF IsNaN(v) THEN r ELSE IF IsNaN(r) \/ Lt(v, r) THEN v ELSE r

NanMax(r, v) == IF IsNaN(v) THEN r ELSE IF IsNaN(r) \/ Lt(r, v) THEN v ELSE r

\* pandas Series.min / Series.max
RECURSIVE MinValid(_, _, _)
MinValid(x, lo, hi) ==
    IF hi < lo THEN NaN ELSE NanMin(MinValid(x, lo, hi - 1), x[hi])

RECURSIVE MaxValid(_, _, _)
MaxValid(x, lo, hi) ==
    IF hi < lo THEN NaN ELSE NanMax(MaxValid(x, lo, hi - 1), x[hi])

\* compute_stats: "stdev" holds the square of series.std()
compute_stats(series) ==
    LET n == Len(series)
    IN  [frames  |-> Count(series, 1, n),
         mean    |-> MeanValid(series, 1, n),
         stdev   |-> VarValid(series, 1, n),
         minimum |-> MinValid(series, 1, n),
         maximum |-> MaxValid(series, 1, n)]

----------------------------------------------------------------------------
(* pandas rolling windows *)

\* The sliding accumulator of pandas' rolling aggregations after position k:
\* the sample entering the window is added, the one leaving it (position
\* k - w) is removed; missing samples are neither added nor removed.
RollAdd(acc, v) ==
    IF IsNaN(v) THEN acc
    ELSE [nobs   |-> acc.nobs + 1,
          sum_x  |-> RAdd(acc.sum_x, v),
          sum_xx |-> RAdd(acc.sum_xx, RMul(v, v))]

RollRemove(acc, v) ==
    IF IsNaN(v) THEN acc
    ELSE [nobs   |-> acc.nobs - 1,
          sum_x  |-> RSub(acc.sum_x, v),
          sum_xx |-> RSub(acc.sum_xx, RMul(v, v))]

RECURSIVE RollAcc(_, _, _)
RollAcc(dg, w, k) ==
    IF k = 0 THEN [nobs |-> 0, sum_x |-> Zero, sum_xx |-> Zero]
    ELSE IF k - w >= 1
    THEN RollRemove(RollAdd(RollAcc(dg, w, k - 1), dg[k]), dg[k - w])
    ELSE RollAdd(RollAcc(dg, w, k - 1), dg[k])

\* Rolling.__init__ validation: ValueError "min_periods must be <= window"
RollingRaises(window, min_periods) == min_periods > window

\* the aggregates of a window with accumulator a; NaN below min_periods
AccMean(a, min_periods) ==
    IF a.nobs >= min_periods THEN RDiv(a.sum_x, Num(a.nobs)) ELSE NaN

AccVar(a, min_periods) ==
    IF a.nobs >= min_periods /\ a.nobs > 1
    THEN RDiv(RSub(RMul(Num(a.nobs), a.sum_xx), RMul(a.sum_x, a.sum_x)),
              Num(a.nobs * (a.nobs - 1)))
    ELSE NaN

AccCount(a, min_periods) == IF a.nobs >= min_periods THEN Num(a.nobs) ELSE NaN

\* dg.rolling(window, min_periods).mean()
RollingMean(dg, window, min_periods) ==
    [k \in 1..Len(dg) |-> AccMean(RollAcc(dg, window, k), min_periods)]

\* dg.rolling(window, min_periods).std(), squared (ddof = 1)
RollingVar(dg, window, min_periods) ==
    [k \in 1..Len(dg) |-> AccVar(RollAcc(dg, window, k), min_periods)]

\* dg.rolling(window, min_periods).count()
RollingCount(dg, window, min_periods) ==
    [k \in 1..Len(dg) |-> AccCount(RollAcc(dg, window, k), min_periods)]

\* Series.fillna(0)
FillNa0(x) == [k \in 1..Len(x) |-> IF IsNaN(x[k]) THEN Zero ELSE x[k]]

----------------------------------------------------------------------------
(* Confidence interval *)

\* scipy.stats.t.ppf(0.975, df), to one decimal
TQuantile(df) ==
    CASE df = 1 -> Rat(127, 10)
      [] df = 2 -> Rat(43, 10)
      [] df = 3 -> Rat(32, 10)
      [] df = 4 -> Rat(28, 10)
      [] OTHER  -> Rat(26, 10)

\* scipy.stats.sem, squared: var(ddof = 1) / n, NaN with a missing sample
SemAll(x, lo, hi) ==
    IF \E k \in lo..hi : IsNaN(x[k]) THEN NaN
    ELSE RDiv(VarValid(x, lo, hi), Num(hi - lo + 1))

\* calculate_confidence_interval on positions lo..hi of data: <<lower, upper>>.
\* np.mean of a Series is Series.mean (missing samples skipped); t.interval
\* gives NaN bounds unless scale > 0.
TInterval(df, mean, std_err) ==
    IF IsNaN(mean) \/ IsNaN(std_err) \/ std_err = Zero
    THEN <<Exact(NaN), Exact(NaN)>>
    ELSE <<Surd(mean, -1, RMul(RMul(TQuantile(df), TQuantile(df)), std_err)),
           Surd(mean, 1, RMul(RMul(TQuantile(df), TQuantile(df)), std_err))>>

calculate_confidence_interval(data, lo, hi) ==
    TInterval(hi - lo, MeanValid(data, lo, hi), SemAll(data, lo, hi))

----------------------------------------------------------------------------
(* Program constants *)

MinLigands == 2

MaxLigands == 6

MinWindow == 1

MaxWindow == 50

MinDuration == 1

DefaultDuration == 100

REQUIRED_COLUMN == "r_psp_MMGBSA_dG_Bind"

ErrorTypes == {"Standard Error", "Standard Deviation", "95% Confidence Interval"}

\* the default plot title (the source writes a capital delta for the d)
DefaultTitle == "dGbind vs Time (ns)"

\* the settings that an interaction of the model can change or that decide
\* what a line looks like; the remaining keys of the source (transparency,
\* line styles and widths, axis labels, legend) are written back unchanged
\* by their widgets
DEFAULT_SETTINGS ==
    [window_size        |-> 10,
     show_frames        |-> TRUE,
     show_running_mean  |-> TRUE,
     show_error_bars    |-> FALSE,
     error_type         |-> "Standard Error",
     frame_color        |-> "#FFA500",
     running_mean_color |-> "#8B0000",
     comparison_mode    |-> FALSE,
     max_ligands        |-> 4,
     plot_title         |-> DefaultTitle]

COLOR_PALETTE ==
    <<"#4E79A7", "#F28E2B", "#E15759", "#76B7B2", "#59A14F", "#EDC948",
      "#B07AA1", "#FF9DA7", "#9C755F", "#BAB0AC">>

----------------------------------------------------------------------------
(* Uploaded files *)

\* What pd.read_csv and the column access make of a file:
\*   "unparseable"  read_csv raises
\*   "empty"        a header without rows and without a title column
\*   "nocol"        rows, but no column r_psp_MMGBSA_dG_Bind
\*   "nonnumeric"   the energy column holds text
\*   "valid"        the energy column is dg (an empty cell is NaN)
FileKinds == {"unparseable", "empty", "nocol", "nonnumeric", "valid"}

NoFile == "none"

Samples == {Num(v) : v \in 0..MaxSample} \cup {NaN}

RECURSIVE SeqsUpTo(_, _)
SeqsUpTo(S, n) ==
    IF n = 0 THEN {<<>>}
    ELSE LET shorter == SeqsUpTo(S, n - 1)
         IN  shorter \cup {Append(q, v) : q \in {r \in shorter : Len(r) = n - 1}, v \in S}

\* every energy column of 1..MaxLen rows
SeriesSet == SeqsUpTo(Samples, MaxLen) \ {<<>>}

\* the files of a session that exercises the upload handling
SessionCatalog ==
    ("ligA.csv" :> [kind |-> "valid", title |-> "LigA", dg |-> <<Num(1), Num(2), Num(0)>>])
    @@ ("ligB.csv" :> [kind |-> "valid", title |-> "LigB", dg |-> <<Num(2), Num(2)>>])
    @@ ("empty.csv" :> [kind |-> "empty", title |-> "", dg |-> <<>>])
    @@ ("nocolumn.csv" :> [kind |-> "nocol", title |-> "LigN", dg |-> <<>>])
    @@ ("garbled.csv" :> [kind |-> "unparseable", title |-> "", dg |-> <<>>])
    @@ ("text.csv" :> [kind |-> "nonnumeric", title |-> "LigT", dg |-> <<>>])

----------------------------------------------------------------------------
(* State *)

VARIABLES
    catalog,        \* the files the user can upload: name -> content
    settings,       \* st.session_state.settings
    multi_files,    \* the files held by the multi-file uploader, in order
    single_file,    \* the file held by the single-file uploader, or NoFile
    md_length_ns,   \* "Total MD time (ns)"
    ligand_settings, \* st.session_state.ligand_settings: ligand id -> settings
    upload_mode,    \* comparison_mode as read at line 214 of the last run
    file_data,      \* file_data of the last run
    warnings,       \* st.warning calls of the last run
    errors,         \* st.error calls of the last run
    lines,          \* plot_ligand_data calls of the last run
    all_stats,      \* all_stats of the last run
    outcome,        \* how the last run ended
    downloads       \* download buttons offered by the last run

vars == <<catalog, settings, ligand_settings, multi_files, single_file, md_length_ns,
          upload_mode, file_data, warnings, errors, lines, all_stats, outcome, downloads>>

\* how a run of the script ends:
\*   "info"     no file uploaded (the else branch of line 622)
\*   "raised"   an uncaught exception ended the run
\*   "stopped"  st.stop() after "No valid data to plot"
\*   "shown"    chart displayed, downloads offered
Outcomes == {"info", "raised", "stopped", "shown"}

----------------------------------------------------------------------------
(* Ingestion, lines 213-257 *)

LigandDefault(idx) == "Ligand_" \o ToString(idx)

\* parse_ligand_id
parse_ligand_id(title) == IF title # "" THEN title ELSE "Ligand"

\* the try block of lines 230-237 / 243-257 for the file at position idx
ReadFile(cat, name, idx) ==
    IF cat[name].kind = "unparseable"
    THEN [df |-> "None", ligand_id |-> LigandDefault(idx), csv_file |-> name]
    ELSE [df |-> "df", ligand_id |-> parse_ligand_id(cat[name].title), csv_file |-> name]

\* uploaded_files[:max_ligands]
Truncate(files, max_ligands) ==
    IF Len(files) > max_ligands THEN SubSeq(files, 1, max_ligands) ELSE files

\* lines 216-237
IngestMulti(cat, uploaded_files, max_ligands) ==
    [warnings  |-> IF Len(uploaded_files) > max_ligands
                   THEN <<[maximum |-> max_ligands]>> ELSE <<>>,
     file_data |-> [idx \in 1..Len(Truncate(uploaded_files, max_ligands)) |->
                       ReadFile(cat, Truncate(uploaded_files, max_ligands)[idx], idx)]]

\* lines 239-257
IngestSingle(cat, csv_file) ==
    [warnings  |-> <<>>,
     file_data |-> IF csv_file = NoFile THEN <<>> ELSE <<ReadFile(cat, csv_file, 1)>>]

TitleWith(ligand_id) == DefaultTitle \o " - " \o ligand_id

\* Lines 248-254: in single-series mode a parsed file puts its ligand id into
\* the plot title, unless the title is one the user typed.  Typing a title
\* is not an interaction of the model, so the stored title is always the
\* default or one made here, and the condition of lines 250-253 holds.
AfterIngest(old, fd) ==
    IF ~old.comparison_mode /\ fd # <<>> /\ fd[1].df # "None"
    THEN [old EXCEPT !.plot_title = TitleWith(fd[1].ligand_id)]
    ELSE old

----------------------------------------------------------------------------
(* Per-ligand settings in comparison mode, lines 406-440 *)

LigandIds(q) == {q[i].ligand_id : i \in 1..Len(q)}

\* idx + 1 for the first entry of file_data with this ligand id
FirstIdx(fd, ligand_id) ==
    CHOOSE i \in 1..Len(fd) :
        /\ fd[i].ligand_id = ligand_id
        /\ \A j \in 1..(i - 1) : fd[j].ligand_id # ligand_id

\* COLOR_PALETTE[idx % len(COLOR_PALETTE)], idx counted from 0
PaletteColor(idx) == COLOR_PALETTE[(idx % Len(COLOR_PALETTE)) + 1]

\* lines 418-424
LigandDefaults(default_color) ==
    [frame_color        |-> default_color,
     frame_style        |-> "solid",
     running_mean_color |-> default_color,
     running_mean_style |-> "solid",
     show_frames        |-> FALSE]

\* lines 412-424: a ligand id not yet known gets the palette colour of its
\* position; a known id keeps what is stored for it
AssignDefaults(ls, fd) ==
    [id \in (DOMAIN ls) \cup LigandIds(fd) |->
        IF id \in DOMAIN ls THEN ls[id]
        ELSE LigandDefaults(PaletteColor(FirstIdx(fd, id) - 1))]

\* what the user does to a per-ligand widget in an interaction: nothing, or
\* one widget of one ligand set to a value
NoInput == [ligand_id |-> "", field |-> "", value |-> ""]

\* lines 426-439: every widget of a listed ligand writes its value back;
\* that is the stored value unless the user changed the widget
LigandWidgets(ls, fd, u) ==
    [id \in DOMAIN ls |->
        IF id = u.ligand_id /\ id \in LigandIds(fd)
        THEN [ls[id] EXCEPT ![u.field] = u.value]
        ELSE ls[id]]

\* Lines 407-440, under the settings st the sidebar has just written and the
\* file_data the upload branch made.  The ligand ids of a catalog are
\* distinct, so the widget keys of lines 428-439 are.
PerLigand(ls, st, fd, u) ==
    IF st.comparison_mode /\ fd # <<>>
    THEN LigandWidgets(AssignDefaults(ls, fd), fd, u)
    ELSE ls

\* lines 461-475: the colours and the frame visibility of a series
LigandCfg(st, ls, ligand_id) ==
    IF st.comparison_mode /\ ligand_id \in DOMAIN ls
    THEN [color       |-> ls[ligand_id].running_mean_color,
          frame_color |-> ls[ligand_id].frame_color,
          show_frames |-> ls[ligand_id].show_frames]
    ELSE [color       |-> st.running_mean_color,
          frame_color |-> st.frame_color,
          show_frames |-> st.show_frames]

----------------------------------------------------------------------------
(* The per-file computation, lines 459-519 *)

\* the time axis with the step taken over N rather than N - 1 intervals
time_ns_per_sample(dg, D) ==
    LET dt == RDiv(Num(D), Num(Max(Len(dg), 1)))
    IN  [k \in 1..Len(dg) |-> RMul(Num(k - 1), dt)]

\* lines 477-478
time_ns(dg, D) ==
    LET dt == RDiv(Num(D), Num(Max(Len(dg) - 1, 1)))
    IN  [k \in 1..Len(dg) |-> RMul(Num(k - 1), dt)]

\* the running mean with the window left out: the mean of all samples so far
running_expanding(dg, window_size) == RollingMean(dg, Len(dg), 1)

\* line 480
running(dg, window_size) == RollingMean(dg, window_size, 1)

\* lines 486-490: squared standard error of the trailing window
StandardError(dg, window_size) ==
    LET running_std   == RollingVar(dg, window_size, 2)
        running_count == RollingCount(dg, window_size, 2)
    IN  FillNa0([k \in 1..Len(dg) |-> RDiv(running_std[k], running_count[k])])

\* lines 491-493: squared standard deviation of the trailing window
StandardDeviation(dg, window_size) == FillNa0(RollingVar(dg, window_size, 2))

\* lines 497-509: <<ci_lower[i], ci_upper[i]>> for position k (index i = k - 1)
ConfidenceBand(dg, window_size, k) ==
    IF k - 1 < 2 THEN <<Exact(dg[k]), Exact(dg[k])>>
    ELSE LET lo == Max(0, (k - 1) - window_size + 1) + 1
         IN  IF k - lo + 1 >= 2 THEN calculate_confidence_interval(dg, lo, k)
             ELSE <<Exact(dg[k]), Exact(dg[k])>>

\* does the error-bar computation of lines 485-509 raise?
ErrorBarsRaise(st) ==
    /\ st.show_error_bars
    /\ st.error_type \in {"Standard Error", "Standard Deviation"}
    /\ RollingRaises(st.window_size, 2)

\* the arguments yerr, ci_lower, ci_upper of plot_ligand_data (lines
\* 482-509); None is <<>>
YErr(st, dg) ==
    IF st.show_error_bars /\ st.error_type = "Standard Error"
    THEN StandardError(dg, st.window_size)
    ELSE IF st.show_error_bars /\ st.error_type = "Standard Deviation"
    THEN StandardDeviation(dg, st.window_size)
    ELSE <<>>

CiBound(st, dg, side) ==
    IF st.show_error_bars /\ st.error_type = "95% Confidence Interval"
    THEN [k \in 1..Len(dg) |-> ConfidenceBand(dg, st.window_size, k)[side]]
    ELSE <<>>

NoBar == [drawn |-> FALSE, below |-> Exact(NaN), above |-> Exact(NaN)]

\* lines 137-149: the bar at a position with magnitude yerr (squared)
SymmetricBar(yerr) ==
    [drawn |-> ~IsNaN(yerr), below |-> Surd(Zero, 1, yerr), above |-> Surd(Zero, 1, yerr)]

\* lines 151-164: the bar at a position with extents yerr_lower, yerr_upper
AsymmetricBar(yerr_lower, yerr_upper) ==
    [drawn |-> ~SurdIsNaN(yerr_lower) /\ ~SurdIsNaN(yerr_upper),
     below |-> yerr_lower,
     above |-> yerr_upper]

\* the error bars plot_ligand_data draws (lines 132-164): for each position
\* whether a bar is drawn there, and its extent below and above the point
ErrorBars(st, y, yerr, ci_lower, ci_upper) ==
    [k \in 1..Len(y) |->
        IF ~(st.show_running_mean /\ st.show_error_bars) THEN NoBar
        ELSE IF st.error_type \in {"Standard Error", "Standard Deviation"}
        THEN SymmetricBar(yerr[k])
        ELSE AsymmetricBar(SurdAbs(SurdRSub(y[k], ci_lower[k])),
                           SurdAbs(SurdSubR(ci_upper[k], y[k])))]

\* plot_ligand_data as called at lines 511-515: what it was given and what
\* it drew.  The per-frame line is drawn under show_frames (line 113); the
\* running-mean line is drawn by the unconditional ax.plot of line 122.
plot_ligand_data(t, dg, y, st, ligand_id, yerr, ci_lower, ci_upper, cfg) ==
    [ligand_id    |-> ligand_id,
     time_ns      |-> t,
     dg           |-> dg,
     running      |-> y,
     yerr         |-> yerr,
     ci_lower     |-> ci_lower,
     ci_upper     |-> ci_upper,
     color        |-> cfg.color,
     frame_color  |-> cfg.frame_color,
     frames_drawn |-> cfg.show_frames,
     mean_drawn   |-> TRUE,
     bars         |-> ErrorBars(st, y, yerr, ci_lower, ci_upper)]

PlotCall(st, ls, entry, dg, D) ==
    plot_ligand_data(time_ns(dg, D), dg, running(dg, st.window_size), st, entry.ligand_id,
                     YErr(st, dg), CiBound(st, dg, 1), CiBound(st, dg, 2),
                     LigandCfg(st, ls, entry.ligand_id))

\* lines 517-519
StatsEntry(entry, dg) == [ligand_id |-> entry.ligand_id] @@ compute_stats(dg)

----------------------------------------------------------------------------
(* One run of the script *)

\* One iteration of the per-file loop, lines 450-519, for entry with file
\* content f.  An exception (astype(float) on text at line 459, the
\* rolling-window validation at lines 487/492) is not caught: it ends the
\* loop and the run.
FileStep(st, ls, D, acc, entry, f) ==
    IF acc.raised THEN acc
    ELSE IF entry.df = "None" \/ f.kind = "empty"
    THEN [acc EXCEPT !.errors = Append(@, [about |-> "empty", name |-> entry.csv_file])]
    ELSE IF f.kind = "nocol"
    THEN [acc EXCEPT !.errors = Append(@, [about |-> REQUIRED_COLUMN, name |-> entry.csv_file])]
    ELSE IF f.kind = "nonnumeric" \/ ErrorBarsRaise(st)
    THEN [acc EXCEPT !.raised = TRUE]
    ELSE [acc EXCEPT !.lines = Append(@, PlotCall(st, ls, entry, f.dg, D)),
                     !.all_stats = Append(@, StatsEntry(entry, f.dg))]

\* the loop over entries 1..k of file_data
RECURSIVE FileLoop(_, _, _, _, _, _)
FileLoop(cat, st, ls, fd, D, k) ==
    IF k = 0
    THEN [errors |-> <<>>, lines |-> <<>>, all_stats |-> <<>>, raised |-> FALSE]
    ELSE FileStep(st, ls, D, FileLoop(cat, st, ls, fd, D, k - 1), fd[k], cat[fd[k].csv_file])

\* The sidebar, lines 259-399: each widget's value is written into the
\* settings; the max-ligands slider and the error-type box exist only when
\* their checkbox is on.  The title input returns the title it is given.
Sidebar(old, w) ==
    [old EXCEPT !.comparison_mode   = w.comparison_mode,
                !.max_ligands       = IF w.comparison_mode THEN w.max_ligands ELSE @,
                !.show_frames       = w.show_frames,
                !.show_running_mean = w.show_running_mean,
                !.window_size       = w.window_size,
                !.show_error_bars   = w.show_error_bars,
                !.error_type        = IF w.show_error_bars THEN w.error_type ELSE @]

\* the ending without the st.stop() of line 523
EndingWithoutStop(fd, D, loop) ==
    IF fd = <<>> \/ ~(D > 0) THEN "info"
    ELSE IF loop.raised THEN "raised"
    ELSE "shown"

\* how the run ends, lines 442, 521-523 and 622
Ending(fd, D, loop) ==
    IF fd = <<>> \/ ~(D > 0) THEN "info"
    ELSE IF loop.raised THEN "raised"
    ELSE IF loop.all_stats = <<>> THEN "stopped"
    ELSE "shown"

\* lines 520-621: what follows the loop
AfterLoop(st, fd, D, loop) ==
    [file_data   |-> fd,
     errors      |-> IF Ending(fd, D, loop) = "stopped"
                     THEN Append(loop.errors, [about |-> "No valid data to plot", name |-> ""])
                     ELSE IF Ending(fd, D, loop) = "info" THEN <<>> ELSE loop.errors,
     lines       |-> IF Ending(fd, D, loop) = "info" THEN <<>> ELSE loop.lines,
     all_stats   |-> IF Ending(fd, D, loop) = "info" THEN <<>> ELSE loop.all_stats,
     outcome     |-> Ending(fd, D, loop),
     downloads   |-> IF Ending(fd, D, loop) # "shown" THEN {}
                     ELSE IF st.comparison_mode THEN {"PNG", "CSV", "TXT"}
                     ELSE {"PNG", "TXT"}]

\* lines 442-621: the loop over file_data and what follows it
Render(cat, st, ls, fd, D) == AfterLoop(st, fd, D, FileLoop(cat, st, ls, fd, D, Len(fd)))

\* lines 213-257: the upload branch chosen by the stored comparison_mode
Ingest(cat, old, multi, single) ==
    IF old.comparison_mode THEN IngestMulti(cat, multi, old.max_ligands)
    ELSE IngestSingle(cat, single)

\* lines 259-621 after the upload branch has produced ing: the sidebar has
\* written the settings st, then the per-ligand block, then rendering
AfterUpload(cat, ing, st, ls, D) ==
    [settings        |-> st,
     ligand_settings |-> ls,
     warnings        |-> ing.warnings]
    @@ Render(cat, st, ls, ing.file_data, D)

AfterSidebar(cat, ing, st, ls, u, D) ==
    AfterUpload(cat, ing, st, PerLigand(ls, st, ing.file_data, u), D)

AfterIngestion(cat, old, ls, w, u, ing, D) ==
    AfterSidebar(cat, ing, Sidebar(AfterIngest(old, ing.file_data), w), ls, u, D)

\* The whole script, run with session settings old and ligand settings ls,
\* widget values w and u, the uploaders holding multi and single, and
\* duration D: ingestion under the stored settings, then the sidebar, then
\* the per-ligand settings and rendering under the new settings.
Script(cat, old, ls, w, u, multi, single, D) ==
    [upload_mode |-> old.comparison_mode]
    @@ AfterIngestion(cat, old, ls, w, u, Ingest(cat, old, multi, single), D)

\* A run of the script from session settings old: the widgets hold w and u,
\* the uploaders hold multi and single.  An uploader that the run does not
\* render loses its files.
RunFrom(old, w, u, multi, single, D) ==
    \E r \in {Script(catalog, old, ligand_settings, w, u, multi, single, D)} :
        /\ settings' = r.settings
        /\ ligand_settings' = r.ligand_settings
        /\ upload_mode' = r.upload_mode
        /\ multi_files' = IF r.upload_mode THEN multi ELSE <<>>
        /\ single_file' = IF r.upload_mode THEN NoFile ELSE single
        /\ md_length_ns' = D
        /\ file_data' = r.file_data
        /\ warnings' = r.warnings
        /\ errors' = r.errors
        /\ lines' = r.lines
        /\ all_stats' = r.all_stats
        /\ outcome' = r.outcome
        /\ downloads' = r.downloads
        /\ UNCHANGED catalog

\* An interaction: the widgets take the values w, the uploaders hold multi
\* and single, and the script runs.
Run(w, multi, single, D) == RunFrom(settings, w, NoInput, multi, single, D)

\* The state after a run of the script in a session with default settings
\* that remembers the ligand settings ls and whose uploader holds single;
\* with no ligand settings, the run that opens a session.
Started(cat, ls, single, D) ==
    \E r \in {Script(cat, DEFAULT_SETTINGS, ls, DEFAULT_SETTINGS, NoInput, <<>>, single, D)} :
        /\ catalog = cat
        /\ settings = r.settings
        /\ ligand_settings = r.ligand_settings
        /\ upload_mode = r.upload_mode
        /\ multi_files = <<>>
        /\ single_file = single
        /\ md_length_ns = D
        /\ file_data = r.file_data
        /\ warnings = r.warnings
        /\ errors = r.errors
        /\ lines = r.lines
        /\ all_stats = r.all_stats
        /\ outcome = r.outcome
        /\ downloads = r.downloads

----------------------------------------------------------------------------
(* Interactions *)

Range(q) == {q[i] : i \in 1..Len(q)}

RemoveAt(q, i) == SubSeq(q, 1, i - 1) \o SubSeq(q, i + 1, Len(q))

WindowChoices == (MinWindow..MaxLen) \cup {DEFAULT_SETTINGS.window_size, MaxWindow}

LigandsChoices == {m \in MinLigands..MaxLigands : m <= MaxFiles + 1}

DurationChoices == (MinDuration..MaxDuration) \cup {DefaultDuration}

\* a file is added to the multi-file uploader
UploadMulti ==
    \E f \in DOMAIN catalog :
        /\ upload_mode
        /\ Len(multi_files) < MaxFiles
        /\ f \notin Range(multi_files)
        /\ Run(settings, Append(multi_files, f), single_file, md_length_ns)

\* a file is removed from the multi-file uploader
RemoveMulti ==
    \E i \in 1..Len(multi_files) :
        /\ upload_mode
        /\ Run(settings, RemoveAt(multi_files, i), single_file, md_length_ns)

\* a file is put into the single-file uploader
UploadSingle ==
    \E f \in DOMAIN catalog :
        /\ ~upload_mode
        /\ f # single_file
        /\ Run(settings, multi_files, f, md_length_ns)

\* the file of the single-file uploader is removed
RemoveSingle ==
    /\ ~upload_mode
    /\ single_file # NoFile
    /\ Run(settings, multi_files, NoFile, md_length_ns)

\* the "Comparison Mode" checkbox, lines 269-273
ToggleComparison ==
    Run([settings EXCEPT !.comparison_mode = ~@], multi_files, single_file, md_length_ns)

\* the "Maximum Number of Ligands" slider, lines 275-282
ChangeMaxLigands ==
    \E m \in LigandsChoices :
        /\ settings.comparison_mode
        /\ m # settings.max_ligands
        /\ Run([settings EXCEPT !.max_ligands = m], multi_files, single_file, md_length_ns)

\* the "Window Size" slider, lines 297-303
ChangeWindow ==
    \E w \in WindowChoices :
        /\ w # settings.window_size
        /\ Run([settings EXCEPT !.window_size = w], multi_files, single_file, md_length_ns)

\* the "Show Error Bars" checkbox, lines 307-310
ToggleErrorBars ==
    Run([settings EXCEPT !.show_error_bars = ~@], multi_files, single_file, md_length_ns)

\* the "Error Type" box, lines 311-318
ChangeErrorType ==
    \E t \in ErrorTypes :
        /\ settings.show_error_bars
        /\ t # settings.error_type
        /\ Run([settings EXCEPT !.error_type = t], multi_files, single_file, md_length_ns)

\* the "Show Individual Frames" checkbox, lines 286-289
ToggleFrames ==
    Run([settings EXCEPT !.show_frames = ~@], multi_files, single_file, md_length_ns)

\* the "Show Running Mean" checkbox, lines 290-293
ToggleRunningMean ==
    Run([settings EXCEPT !.show_running_mean = ~@], multi_files, single_file, md_length_ns)

\* a colour the user picks; it is not a palette colour
UserColor == "#000000"

\* the ligands whose widgets the last run put into the sidebar (lines 425-439)
LigandsListed ==
    IF settings.comparison_mode /\ outcome # "info" THEN LigandIds(file_data) ELSE {}

\* the "Show Frame Line (<ligand>)" checkbox, lines 428-429
ToggleLigandFrames ==
    \E id \in LigandsListed :
        RunFrom(settings, settings,
                [ligand_id |-> id, field |-> "show_frames",
                 value |-> ~ligand_settings[id].show_frames],
                multi_files, single_file, md_length_ns)

\* the "Running Mean Color (<ligand>)" picker, lines 435-436
ChangeLigandColor ==
    \E id \in LigandsListed :
        /\ ligand_settings[id].running_mean_color # UserColor
        /\ RunFrom(settings, settings,
                   [ligand_id |-> id, field |-> "running_mean_color", value |-> UserColor],
                   multi_files, single_file, md_length_ns)

\* The "Reset All Settings to Defaults" button, lines 264-266.  The run in
\* which the button is pressed renders the uploader of the stored mode,
\* replaces the settings by a copy of the defaults and ends in st.rerun();
\* the script then runs again from the defaults.  The state of a widget the
\* pressed run did not reach is discarded when that run ends, so in the rerun
\* every sidebar widget and the duration input return their value argument,
\* and the single-file uploader keeps its file only if the pressed run
\* rendered it.
Reset ==
    RunFrom(DEFAULT_SETTINGS, DEFAULT_SETTINGS, NoInput, <<>>,
            IF settings.comparison_mode THEN NoFile ELSE single_file,
            DefaultDuration)

\* the "Total MD time (ns)" input, line 404
ChangeDuration ==
    \E d \in DurationChoices :
        /\ d # md_length_ns
        /\ Run(settings, multi_files, single_file, d)

----------------------------------------------------------------------------
(* Specifications *)

\* the smallest position (idx + 1) at which a file of the catalog has this
\* ligand id
FirstPosition(cat, ligand_id) ==
    CHOOSE k \in 1..MaxFiles :
        /\ \E f \in DOMAIN cat : ReadFile(cat, f, k).ligand_id = ligand_id
        /\ \A j \in 1..(k - 1) : \A f \in DOMAIN cat : ReadFile(cat, f, j).ligand_id # ligand_id

\* The ligand settings of a session that has already listed every file of
\* the catalog in comparison mode, each at the smallest position it can
\* take: lines 412-424 have stored its defaults, and they stay stored.
Remembered(cat) ==
    [id \in {ReadFile(cat, f, k).ligand_id : f \in DOMAIN cat, k \in 1..MaxFiles} |->
        LigandDefaults(PaletteColor(FirstPosition(cat, id) - 1))]

\* a session: uploads, mode and limits, by a user who has compared the
\* files of the catalog before
Init == Started(SessionCatalog, Remembered(SessionCatalog), NoFile, DefaultDuration)

Next ==
    \/ UploadMulti
    \/ RemoveMulti
    \/ UploadSingle
    \/ RemoveSingle
    \/ ToggleComparison
    \/ ChangeMaxLigands

Spec == Init /\ [][Next]_vars

\* a session on one valid file with any energy column: the computations
InitCalc ==
    \E dg \in SeriesSet, D \in DurationChoices :
        Started("series.csv" :> [kind |-> "valid", title |-> "Lig", dg |-> dg],
                <<>>, "series.csv", D)

NextCalc ==
    \/ ChangeWindow
    \/ ToggleErrorBars
    \/ ChangeErrorType
    \/ ChangeDuration

SpecCalc == InitCalc /\ [][NextCalc]_vars

\* two valid files of a new session
ViewCatalog == [f \in {"ligA.csv", "ligB.csv"} |-> SessionCatalog[f]]

\* a new session: uploads, mode, visibility, per-ligand settings and reset
InitView == Started(ViewCatalog, <<>>, NoFile, DefaultDuration)

NextView ==
    \/ UploadMulti
    \/ RemoveMulti
    \/ UploadSingle
    \/ RemoveSingle
    \/ ToggleComparison
    \/ ToggleFrames
    \/ ToggleRunningMean
    \/ ToggleLigandFrames
    \/ ChangeLigandColor
    \/ Reset

SpecView == InitView /\ [][NextView]_vars

----------------------------------------------------------------------------
(* Properties of the computations, checked under SpecCalc *)

\* positions of the trailing window of size w ending at position k
WindowLo(w, k) == Max(1, k - w + 1)

NoMissing(dg) == \A k \in 1..Len(dg) : ~IsNaN(dg[k])

\* C1: the running mean plotted at each index i is the arithmetic mean of
\* the samples at indices max(0, i-w+1) .. i (of those present, when the
\* column has empty cells): no later sample, at most w samples; at index 0
\* it is sample 0, and with w = 1 it is the input series.
C1_RunningMeanIsTrailingMean ==
    \A n \in 1..Len(lines) :
        LET L == lines[n]
            w == settings.window_size
        IN  /\ Len(L.running) = Len(L.dg)
            /\ \A k \in 1..Len(L.dg) :
                   L.running[k] = MeanValid(L.dg, WindowLo(w, k), k)
            /\ L.running[1] = L.dg[1]
            /\ (w = 1 => L.running = L.dg)

\* a window of 2 that has slid past sample 0 of a three-sample series whose
\* overall mean differs from the mean of its last two samples
C1_Witness ==
    \E n \in 1..Len(lines) :
        /\ settings.window_size = 2
        /\ Len(lines[n].dg) = 3
        /\ NoMissing(lines[n].dg)
        /\ lines[n].running[3] = MeanValid(lines[n].dg, 2, 3)
        /\ lines[n].running[3] # MeanValid(lines[n].dg, 1, 3)

ErrorBarsOn(types) == settings.show_error_bars /\ settings.error_type \in types

\* fewer than 2 samples in the trailing window ending at position k
ShortWindow(dg, w, k) == Count(dg, WindowLo(w, k), k) < 2

\* C6: in 95%-confidence-interval mode the band drawn at every index i
\* satisfies lower <= point <= upper, point being the running mean plotted
\* at i; where the band is degenerate (the first two indices, or a trailing
\* window of fewer than 2 samples) lower = point = upper and the drawn bar
\* has zero length.
C6_BandAroundPoint ==
    ErrorBarsOn({"95% Confidence Interval"}) =>
        \A n \in 1..Len(lines) :
            \A k \in 1..Len(lines[n].dg) :
                LET L == lines[n]
                IN  L.bars[k].drawn =>
                        /\ SurdLeR(L.ci_lower[k], L.running[k])
                        /\ RLeSurd(L.running[k], L.ci_upper[k])
                        /\ (k <= 2 \/ ShortWindow(L.dg, settings.window_size, k)) =>
                               /\ L.ci_lower[k] = Exact(L.running[k])
                               /\ L.ci_upper[k] = Exact(L.running[k])
                               /\ SurdIsZero(L.bars[k].below)
                               /\ SurdIsZero(L.bars[k].above)

\* C7: with error bars on in Standard Error or Standard Deviation mode, for
\* every window size (w = 1 included) and every non-empty series the error
\* magnitude is computed for every index without an error being raised, and
\* it is 0 wherever the trailing window holds fewer than 2 samples.
C7_ErrorMagnitudeComputed ==
    (ErrorBarsOn({"Standard Error", "Standard Deviation"}) /\ file_data # <<>>) =>
        /\ outcome # "raised"
        /\ Len(lines) = Len(file_data)
        /\ \A n \in 1..Len(lines) :
               /\ Len(lines[n].yerr) = Len(lines[n].dg)
               /\ \A k \in 1..Len(lines[n].dg) :
                      ShortWindow(lines[n].dg, settings.window_size, k) =>
                          lines[n].yerr[k] = Zero

\* C8: every result of compute_stats has minimum <= mean <= maximum, its
\* minimum and maximum are values of the series, and its frames is the
\* length of the series, also when rows of the column are empty.
C8_StatsWithinRange ==
    \A n \in 1..Len(all_stats) :
        LET stats == all_stats[n]
            dg    == lines[n].dg
        IN  /\ Le(stats.minimum, stats.mean)
            /\ Le(stats.mean, stats.maximum)
            /\ stats.minimum \in Range(dg)
            /\ stats.maximum \in Range(dg)
            /\ stats.frames = Len(dg)

\* C9: for every non-empty series whose samples are all identical (N = 1
\* included) the standard deviation of compute_stats is exactly 0.
C9_IdenticalSamplesZeroStdev ==
    \A n \in 1..Len(all_stats) :
        LET dg == lines[n].dg
        IN  (NoMissing(dg) /\ \A k \in 1..Len(dg) : dg[k] = dg[1]) =>
                all_stats[n].stdev = Zero

----------------------------------------------------------------------------
(* Properties of a session, checked under Spec *)

FileNames(fd) == [i \in 1..Len(fd) |-> fd[i].csv_file]

ErrorsAbout(name) == {i \in 1..Len(errors) : errors[i].name = name}

IsValid(f) == catalog[f].kind = "valid"

\* C2: in every interaction in comparison mode the number of series
\* ingested and plotted is at most the max-series-count configured in that
\* interaction; with more files uploaded than that, exactly the first max
\* files are used and exactly one truncation warning is issued.
C2_SeriesWithinMaximum ==
    (upload_mode /\ settings.comparison_mode) =>
        /\ Len(file_data) <= settings.max_ligands
        /\ Len(lines) <= settings.max_ligands
        /\ Len(multi_files) > settings.max_ligands =>
               /\ FileNames(file_data) = SubSeq(multi_files, 1, settings.max_ligands)
               /\ Len(warnings) = 1

\* C3: in comparison mode every invalid file of the list has an error
\* reported for it, every valid file of the list is plotted and has its
\* statistics, and the interaction does not abort.
C3_BadFileSkipped ==
    (upload_mode /\ settings.comparison_mode) =>
        /\ outcome # "raised"
        /\ \A i \in 1..Len(file_data) :
               IF IsValid(file_data[i].csv_file)
               THEN /\ outcome = "shown"
                    /\ file_data[i].ligand_id \in LigandIds(lines)
                    /\ file_data[i].ligand_id \in LigandIds(all_stats)
               ELSE ErrorsAbout(file_data[i].csv_file) # {}

\* C4: a parsed file without the column r_psp_MMGBSA_dG_Bind has an error
\* reported that names it, and contributes no line, no statistics entry and
\* nothing to an export; in single-series mode no statistics are computed.
C4_MissingColumnExcluded ==
    \A i \in 1..Len(file_data) :
        (file_data[i].df # "None" /\ catalog[file_data[i].csv_file].kind = "nocol") =>
            /\ \E e \in ErrorsAbout(file_data[i].csv_file) : errors[e].about = REQUIRED_COLUMN
            /\ file_data[i].ligand_id \notin LigandIds(lines)
            /\ file_data[i].ligand_id \notin LigandIds(all_stats)
            /\ (~upload_mode => all_stats = <<>> /\ downloads = {})

\* C5: when files are uploaded and the statistics list is empty after the
\* per-file loop, "No valid data to plot" is reported and the run halts:
\* no chart is displayed and no PNG, TXT or CSV download is offered.
C5_NoValidDataHalts ==
    (file_data # <<>> /\ all_stats = <<>>) =>
        /\ outcome # "shown"
        /\ downloads = {}
        /\ outcome # "raised" =>
               /\ outcome = "stopped"
               /\ errors[Len(errors)].about = "No valid data to plot"

\* two uploaded files, neither usable, in comparison mode
C5_Witness ==
    /\ upload_mode
    /\ Len(file_data) = 2
    /\ all_stats = <<>>
    /\ outcome = "stopped"
    /\ Len(errors) = 3

----------------------------------------------------------------------------
(* Properties of what is drawn and of the settings, checked under SpecView *)

\* C11: in comparison mode a series whose colour the user has not changed
\* is drawn in COLOR_PALETTE[idx mod palette length], idx its position in
\* the current upload list, and two different series of one chart never
\* share a default colour.
C11_DefaultColoursDistinct ==
    settings.comparison_mode =>
        \A n \in 1..Len(lines) :
            lines[n].color # UserColor =>
                /\ lines[n].color = PaletteColor(FirstIdx(file_data, lines[n].ligand_id) - 1)
                /\ \A m \in 1..Len(lines) :
                       (m # n /\ lines[m].ligand_id # lines[n].ligand_id) =>
                           lines[m].color # lines[n].color

\* C12: a press of "Reset All Settings to Defaults" leaves every key of the
\* session settings at its value in DEFAULT_SETTINGS.
C12_ResetRestoresDefaults == [][Reset => settings' = DEFAULT_SETTINGS]_vars

\* C13: the running-mean line of a series is drawn if and only if "Show
\* Running Mean" is on, and its per-frame line is drawn if and only if the
\* frame toggle that applies to the series is on: the per-ligand one in
\* comparison mode, "Show Individual Frames" otherwise.
C13_TogglesDecideDrawing ==
    \A n \in 1..Len(lines) :
        /\ lines[n].mean_drawn <=> settings.show_running_mean
        /\ lines[n].frames_drawn <=>
               IF settings.comparison_mode /\ lines[n].ligand_id \in DOMAIN ligand_settings
               THEN ligand_settings[lines[n].ligand_id].show_frames
               ELSE settings.show_frames

\* C14: in every interaction that renders and exports, the upload mode used
\* for ingestion is the comparison-mode setting used for rendering and
\* export; when these run in single-series mode at most one series has been
\* ingested and plotted.
C14_ModesAgree ==
    outcome = "shown" =>
        /\ upload_mode = settings.comparison_mode
        /\ ~settings.comparison_mode => (Len(file_data) <= 1 /\ Len(lines) <= 1)

====
